---- MODULE Spec2Model ----
(***************************************************************************)
(* Model of laia/models/htr/conv_block.py: the ConvBlock layer of PyLaia.  *)
(*                                                                         *)
(* A ConvBlock is built once by __init__ from its configuration: it keeps  *)
(* an ordered dictionary of sub-modules (dropout?, conv, batchnorm?,       *)
(* activation, pooling?) and the tensor _poolsize.  forward() pushes a     *)
(* tensor, or the data of a PaddedTensor, through the sub-modules and      *)
(* divides the sizes of a PaddedTensor by _poolsize.  cpu() and cuda()     *)
(* move the parameters and _poolsize to a device.                          *)
(*                                                                         *)
(* Tensors are modelled by their shape (batch, height, width) and their    *)
(* device; the sizes of a PaddedTensor by their dimensions and rows.       *)
(* Python's None is the empty tuple <<>>, a scalar n is <<n>>, and a pair  *)
(* (a, b) is <<a, b>>.  Dropout rates are in thousandths (999 is 0.999).   *)
(***************************************************************************)
EXTENDS Integers, Sequences, FiniteSets

VARIABLES
  self_modules,   \* self._modules: the sub-modules in registration order
  self_poolsize,  \* self._poolsize: None or the pool size (height, width)
  pool_device,    \* the device of the tensor self._poolsize ("none" without it)
  param_device,   \* the device of the parameters of the sub-modules
  x,              \* the tensor or PaddedTensor the caller passes to forward next
  call            \* the last call on the block: its arguments and how it ended

vars == <<self_modules, self_poolsize, pool_device, param_device, x, call>>

(* ---------------------------- bounds ---------------------------------- *)
MaxKernel == 3
MaxDilation == 2
MaxPool == 2
MaxExtent == 2
MaxBatch == 2

KernelSizes == 1..MaxKernel
Dilations == 1..MaxDilation
PoolSizes == (0 - 1)..MaxPool
Extents == 1..MaxExtent
DropoutRates == {0 - 500, 0, 999, 1000, 1500}
Devices == {"cpu", "cuda"}

None == <<>>
Pairs(S) == {<<a, b>> : a \in S, b \in S}
ScalarOrPair(S) == {<<a>> : a \in S} \cup Pairs(S)

(* ------------------------- ConvBlock.__init__ -------------------------- *)

\* isinstance(v, (list, tuple))
IsPair(v) == Len(v) = 2

\* Python truth value of an argument that is None, a number or a tuple.
Truthy(v) == IF Len(v) = 0 THEN FALSE ELSE IF Len(v) = 1 THEN v[1] # 0 ELSE TRUE

\* lines 14-19: a scalar is broadcast to a pair.
Broadcast(v) == IF IsPair(v) THEN v ELSE <<v[1], v[1]>>

\* line 18: only a truthy pool size that is no pair is broadcast.
BroadcastPool(poolsize) ==
  IF Truthy(poolsize) /\ ~IsPair(poolsize) THEN Broadcast(poolsize) ELSE poolsize

\* Mutant of DropoutAccepted: the rate 1.0 itself passes the assertion.
DropoutAccepted_UpToOne(dropout) ==
  IF ~Truthy(dropout) THEN TRUE ELSE dropout[1] <= 1000

\* line 12: assert (not dropout or dropout < 1.0)
DropoutAccepted(dropout) == IF ~Truthy(dropout) THEN TRUE ELSE dropout[1] < 1000

\* Mutant of PoolDivisor: both dimensions must exceed 1.
PoolDivisor_BothAboveOne(poolsize) ==
  LET ps == BroadcastPool(poolsize) IN
  IF Truthy(ps) /\ ps[1] > 1 /\ ps[2] > 1 THEN ps ELSE None

\* lines 24-27: the tensor kept in _poolsize, or None.
PoolDivisor(poolsize) ==
  LET ps == BroadcastPool(poolsize) IN
  IF Truthy(ps) /\ ps[1] > 0 /\ ps[2] > 0 /\ (ps[1] > 1 \/ ps[2] > 1)
  THEN ps ELSE None

\* line 30: if dropout and dropout > 0.0
HasDropout(dropout) == Truthy(dropout) /\ dropout[1] > 0

\* Mutant of AxisPadding: half the kernel size, not half of one less.
AxisPadding_HalfKernel(k, d) == (k \div 2) * d

\* lines 34-35: padding of the convolution, per axis.
AxisPadding(k, d) == ((k - 1) \div 2) * d

Padding(kernel_size, dilation) ==
  <<AxisPadding(kernel_size[1], dilation[1]), AxisPadding(kernel_size[2], dilation[2])>>

DropoutLayer(dropout) == [name |-> "dropout", p |-> dropout[1]]

ConvLayer(kernel_size, dilation) ==
  [name |-> "conv", kernel_size |-> kernel_size,
   padding |-> Padding(kernel_size, dilation), dilation |-> dilation]

BatchNormLayer == [name |-> "batchnorm"]

ActivationLayer == [name |-> "activation"]

PoolingLayer(ps) == [name |-> "pooling", kernel_size |-> ps]

\* Mutant of BuildModules: the activation is registered before batchnorm.
BuildModules_ActivationFirst(kernel_size, dilation, poolsize, dropout, batchnorm) ==
  LET ks == Broadcast(kernel_size)
      dl == Broadcast(dilation)
      ps == BroadcastPool(poolsize)
  IN  (IF HasDropout(dropout) THEN <<DropoutLayer(dropout)>> ELSE <<>>)
      \o <<ConvLayer(ks, dl)>>
      \o <<ActivationLayer>>
      \o (IF batchnorm THEN <<BatchNormLayer>> ELSE <<>>)
      \o (IF PoolDivisor(poolsize) # None THEN <<PoolingLayer(ps)>> ELSE <<>>)

\* Mutant of BuildModules: the pooling layer is added only for a pool size
\* above 1 in both dimensions, while _poolsize is kept as before.
BuildModules_SquarePoolOnly(kernel_size, dilation, poolsize, dropout, batchnorm) ==
  LET ks == Broadcast(kernel_size)
      dl == Broadcast(dilation)
      ps == BroadcastPool(poolsize)
  IN  (IF HasDropout(dropout) THEN <<DropoutLayer(dropout)>> ELSE <<>>)
      \o <<ConvLayer(ks, dl)>>
      \o (IF batchnorm THEN <<BatchNormLayer>> ELSE <<>>)
      \o <<ActivationLayer>>
      \o (IF PoolDivisor(poolsize) # None /\ ps[1] > 1 /\ ps[2] > 1
          THEN <<PoolingLayer(ps)>> ELSE <<>>)

\* lines 29-52: the sub-modules, in the order add_module registers them.
BuildModules(kernel_size, dilation, poolsize, dropout, batchnorm) ==
  LET ks == Broadcast(kernel_size)
      dl == Broadcast(dilation)
      ps == BroadcastPool(poolsize)
  IN  (IF HasDropout(dropout) THEN <<DropoutLayer(dropout)>> ELSE <<>>)
      \o <<ConvLayer(ks, dl)>>
      \o (IF batchnorm THEN <<BatchNormLayer>> ELSE <<>>)
      \o <<ActivationLayer>>
      \o (IF PoolDivisor(poolsize) # None THEN <<PoolingLayer(ps)>> ELSE <<>>)

(* --------------------------- ConvBlock.forward ------------------------- *)

\* nn.Conv2d with stride 1: the output extent of one axis.
ConvExtent(h, k, p, d) == h + 2 * p - d * (k - 1)

\* nn.MaxPool2d(ps): stride ps, no padding, floor mode.
PoolExtent(h, ps) == ((h - ps) \div ps) + 1

\* One sub-module applied to a data tensor of shape (n, _, h, w) on device dev
\* while the parameters are on device pdev.  ok is FALSE when the library
\* raises: the output would be empty, or the weights are on another device.
ApplyModule(m, t, pdev) ==
  IF m.name = "conv"
  THEN LET h2 == ConvExtent(t.h, m.kernel_size[1], m.padding[1], m.dilation[1])
           w2 == ConvExtent(t.w, m.kernel_size[2], m.padding[2], m.dilation[2])
       IN  [ok |-> t.dev = pdev /\ h2 >= 1 /\ w2 >= 1, h |-> h2, w |-> w2]
  ELSE IF m.name = "batchnorm"
  THEN [ok |-> t.dev = pdev, h |-> t.h, w |-> t.w]
  ELSE IF m.name = "pooling"
  THEN LET h2 == PoolExtent(t.h, m.kernel_size[1])
           w2 == PoolExtent(t.w, m.kernel_size[2])
       IN  [ok |-> h2 >= 1 /\ w2 >= 1, h |-> h2, w |-> w2]
  ELSE [ok |-> TRUE, h |-> t.h, w |-> t.w]

\* lines 64-65: for module in self._modules.values(): x = module(x).
\* trace lists the modules that returned, with the extent each one produced.
RECURSIVE RunModules(_, _, _, _, _)
RunModules(mods, i, t, pdev, trace) ==
  IF i > Len(mods) THEN [ok |-> TRUE, t |-> t, trace |-> trace]
  ELSE LET r == ApplyModule(mods[i], t, pdev) IN
       IF ~r.ok THEN [ok |-> FALSE, t |-> t, trace |-> trace]
       ELSE RunModules(mods, i + 1, [t EXCEPT !.h = r.h, !.w = r.w], pdev,
                       Append(trace, [name |-> mods[i].name, h |-> r.h, w |-> r.w]))

\* Mutant of DivideSizes: both columns are divided by the pool height.
DivideSizes_ByHeight(rows, ps) ==
  [i \in 1..Len(rows) |-> <<rows[i][1] \div ps[1], rows[i][2] \div ps[1]>>]

\* line 68: xs / self._poolsize on LongTensors, row by row.  The operands are
\* never negative here, so the truncating division of the tensor library is \div.
DivideSizes(rows, ps) ==
  [i \in 1..Len(rows) |-> <<rows[i][1] \div ps[1], rows[i][2] \div ps[2]>>]

\* Mutant of Forward: only the number of dimensions of the sizes is asserted.
Forward_DimOnly(mods, ps, psdev, pdev, in) ==
  LET is_padded == in.kind = "padded" IN
  IF is_padded /\ in.dim # 2
  THEN [status |-> "shape_error", trace |-> <<>>, y |-> in]
  ELSE LET r == RunModules(mods, 1, in, pdev, <<>>) IN
       IF ~r.ok
       THEN [status |-> "library_error", trace |-> r.trace, y |-> in]
       ELSE IF is_padded
       THEN IF ps # None
            THEN IF psdev # in.dev
                 THEN [status |-> "device_error", trace |-> r.trace, y |-> in]
                 ELSE [status |-> "ok", trace |-> r.trace,
                       y |-> [r.t EXCEPT !.rows = DivideSizes(in.rows, ps)]]
            ELSE [status |-> "ok", trace |-> r.trace, y |-> r.t]
       ELSE [status |-> "ok", trace |-> r.trace, y |-> r.t]

\* Mutant of Forward: the data is returned without its PaddedTensor.
Forward_Unwrapped(mods, ps, psdev, pdev, in) ==
  LET is_padded == in.kind = "padded" IN
  IF is_padded /\ (in.dim # 2 \/ in.cols # 2)
  THEN [status |-> "shape_error", trace |-> <<>>, y |-> in]
  ELSE LET r == RunModules(mods, 1, in, pdev, <<>>) IN
       IF ~r.ok
       THEN [status |-> "library_error", trace |-> r.trace, y |-> in]
       ELSE [status |-> "ok", trace |-> r.trace,
             y |-> [r.t EXCEPT !.kind = "bare", !.dim = 0, !.cols = 0, !.rows = <<>>]]

\* lines 54-71.  The result: status, the modules applied, and the value
\* returned (y, meaningful when status is "ok").
Forward(mods, ps, psdev, pdev, in) ==
  LET is_padded == in.kind = "padded" IN
  IF is_padded /\ (in.dim # 2 \/ in.cols # 2)
  THEN [status |-> "shape_error", trace |-> <<>>, y |-> in]
  ELSE LET r == RunModules(mods, 1, in, pdev, <<>>) IN
       IF ~r.ok
       THEN [status |-> "library_error", trace |-> r.trace, y |-> in]
       ELSE IF is_padded
       THEN IF ps # None
            THEN IF psdev # in.dev
                 THEN [status |-> "device_error", trace |-> r.trace, y |-> in]
                 ELSE [status |-> "ok", trace |-> r.trace,
                       y |-> [r.t EXCEPT !.rows = DivideSizes(in.rows, ps)]]
            ELSE [status |-> "ok", trace |-> r.trace, y |-> r.t]
       ELSE [status |-> "ok", trace |-> r.trace, y |-> r.t]

(* --------------------------- inputs of forward ------------------------- *)

SizesRows(n, h, w) == [1..n -> {<<a, b>> : a \in 0..h, b \in 0..w}]

BareTensors ==
  {[kind |-> "bare", n |-> n, h |-> h, w |-> w, dev |-> dv,
    dim |-> 0, cols |-> 0, rows |-> <<>>] :
     n \in 1..MaxBatch, h \in Extents, w \in Extents, dv \in Devices}

\* PaddedTensors whose sizes are an (n, 2) matrix with rows inside the data.
PaddedTensors ==
  UNION {{[kind |-> "padded", n |-> n, h |-> h, w |-> w, dev |-> dv,
           dim |-> 2, cols |-> 2, rows |-> rs] : rs \in SizesRows(n, h, w), dv \in Devices} :
         n \in 1..MaxBatch, h \in Extents, w \in Extents}

\* PaddedTensors whose sizes are a vector, a 3-dimensional tensor, or a matrix
\* of 1 or 3 columns; the entries are never read and are left out.
MalformedTensors ==
  {[kind |-> "padded", n |-> n, h |-> MaxExtent, w |-> MaxExtent, dev |-> dv,
    dim |-> sh[1], cols |-> sh[2], rows |-> <<>>] :
     n \in 1..MaxBatch, dv \in Devices,
     sh \in {<<1, 0>>, <<3, 2>>, <<2, 1>>, <<2, 3>>}}

Inputs == BareTensors \cup PaddedTensors \cup MalformedTensors

(* ------------------------------ operations ----------------------------- *)

\* The arguments of the constructor.  in_channels, out_channels, activation
\* and inplace are handed to the library unchanged and are left out.
Args ==
  [kernel_size : ScalarOrPair(KernelSizes),
   dilation : ScalarOrPair(Dilations),
   poolsize : {None} \cup ScalarOrPair(PoolSizes),
   dropout : {None} \cup {<<r>> : r \in DropoutRates},
   batchnorm : BOOLEAN]

\* The fields of the block __init__ leaves behind (lines 24-52).
NewBlock(a) ==
  [modules |-> BuildModules(a.kernel_size, a.dilation, a.poolsize, a.dropout, a.batchnorm),
   poolsize |-> PoolDivisor(a.poolsize),
   pool_device |-> IF PoolDivisor(a.poolsize) # None THEN "cpu" ELSE "none"]

\* Every block the constructor returns.
Blocks == {NewBlock(a) : a \in {b \in Args : DropoutAccepted(b.dropout)}}

\* Batches of one image that fills its data, of each extent, bare and padded,
\* and batches of one image whose sizes are refused.
ProbeInputs ==
  {t \in Inputs :
     /\ t.n = 1
     /\ (t.kind = "padded" /\ t.dim = 2 /\ t.cols = 2) => t.rows[1] = <<t.h, t.w>>}

\* The caller holds no tensor yet.
NoTensor == [kind |-> "none"]

\* No block yet.
InitNew ==
  /\ self_modules = <<>>
  /\ self_poolsize = None
  /\ pool_device = "none"
  /\ param_device = "cpu"
  /\ x = NoTensor
  /\ call = [op |-> "none"]

\* ConvBlock.__init__ (lines 8-52).
Construct ==
  /\ call.op = "none"
  /\ \E a \in Args :
       IF ~DropoutAccepted(a.dropout)
       THEN /\ call' = [op |-> "init", args |-> a, status |-> "config_error"]
            /\ UNCHANGED <<self_modules, self_poolsize, pool_device, param_device, x>>
       ELSE /\ self_modules' = NewBlock(a).modules
            /\ self_poolsize' = NewBlock(a).poolsize
            /\ pool_device' = NewBlock(a).pool_device
            /\ param_device' = "cpu"
            /\ call' = [op |-> "init", args |-> a, status |-> "ok"]
            /\ UNCHANGED x

\* ConvBlock.forward (lines 54-71) on the tensor t; the caller keeps what it
\* returns, or t when it raises.
Pass(t) ==
  /\ self_modules # <<>>
  /\ LET r == Forward(self_modules, self_poolsize, pool_device, param_device, t) IN
       /\ call' = [op |-> "forward", arg |-> t, status |-> r.status, trace |-> r.trace]
       /\ x' = IF r.status = "ok" THEN r.y ELSE t
  /\ UNCHANGED <<self_modules, self_poolsize, pool_device, param_device>>

\* The first forward of a caller that holds no tensor yet.
ForwardFirst == x = NoTensor /\ \E t \in ProbeInputs : Pass(t)

\* forward on the tensor the caller holds: what a call returned is passed on
\* to the next call.
ForwardCall == x # NoTensor /\ Pass(x)

\* Mutant of MoveTo: only the base class acts, _poolsize stays where it was.
MoveTo_ParametersOnly(dv) ==
  /\ self_modules # <<>>
  /\ param_device' = dv
  /\ pool_device' = pool_device
  /\ call' = [op |-> dv]
  /\ UNCHANGED <<self_modules, self_poolsize, x>>

\* ConvBlock.cpu and ConvBlock.cuda (lines 73-83): the base class moves the
\* parameters, then _poolsize follows when it exists.
MoveTo(dv) ==
  /\ self_modules # <<>>
  /\ param_device' = dv
  /\ pool_device' = IF self_poolsize # None THEN dv ELSE pool_device
  /\ call' = [op |-> dv]
  /\ UNCHANGED <<self_modules, self_poolsize, x>>

Cpu == MoveTo("cpu")

Cuda == MoveTo("cuda")

\* A constructed block and a tensor to pass through it.
Init ==
  /\ \E b \in Blocks :
       /\ self_modules = b.modules
       /\ self_poolsize = b.poolsize
       /\ pool_device = b.pool_device
  /\ param_device = "cpu"
  /\ x \in Inputs
  /\ call = [op |-> "new"]

Next == ForwardCall \/ Cpu \/ Cuda

\* The life of a constructed block, on every input.
Spec == Init /\ [][Next]_vars

NextNew == Construct \/ ForwardFirst \/ ForwardCall \/ Cpu \/ Cuda

\* The life of a block from before its construction, on every configuration,
\* with batches of one image.
SpecNew == InitNew /\ [][NextNew]_vars

(* ------------------------------- claims -------------------------------- *)

Names(seq) == [i \in 1..Len(seq) |-> seq[i].name]

HasModule(nm) == \E i \in 1..Len(self_modules) : self_modules[i].name = nm

ModuleNamed(nm) == self_modules[CHOOSE i \in 1..Len(self_modules) : self_modules[i].name = nm]

Constructed == call.op = "init" /\ call.status = "ok"

Returned == call.op = "forward" /\ call.status = "ok"

\* The suppression rule of the pool size, on the argument as the caller gave it.
PoolHonoured(p) ==
  /\ p # None
  /\ LET q == IF Len(p) = 1 THEN <<p[1], p[1]>> ELSE p IN
       q[1] > 0 /\ q[2] > 0 /\ (q[1] > 1 \/ q[2] > 1)

\* The condition under which each layer is built, on the arguments of the call.
C1_Wanted(nm) ==
  IF nm = "dropout" THEN call.args.dropout # None /\ call.args.dropout[1] > 0
  ELSE IF nm = "batchnorm" THEN call.args.batchnorm
  ELSE IF nm = "pooling" THEN PoolHonoured(call.args.poolsize)
  ELSE TRUE

\* C1: the constructed layers are exactly those of dropout, conv, batchnorm,
\* activation, pooling whose condition holds (dropout iff rate > 0, batchnorm
\* iff the flag, pooling iff the pool size passes the suppression rule, conv
\* and activation always), in that order; forward applies the layers in that
\* order: the layers it has applied are always a prefix of the sequence, and
\* the whole sequence when it returns.
C1_LayerOrder ==
  /\ Constructed =>
       Names(self_modules) =
         SelectSeq(<<"dropout", "conv", "batchnorm", "activation", "pooling">>, C1_Wanted)
  /\ call.op = "forward" =>
       /\ Len(call.trace) <= Len(self_modules)
       /\ Names(call.trace) = SubSeq(Names(self_modules), 1, Len(call.trace))
  /\ Returned => Names(call.trace) = Names(self_modules)

\* A forward pass that returned from a block with all five layers.
C1_Witness == Returned /\ Len(self_modules) = 5 /\ Len(call.trace) = 5

\* C4 as stated: construction succeeds exactly when 0 <= rate < 1.
C4_Original ==
  (call.op = "init" /\ call.args.dropout # None) =>
    (call.status = "ok" <=> (0 <= call.args.dropout[1] /\ call.args.dropout[1] < 1000))

\* C4, amended: construction raises the configuration error, and leaves no
\* block, exactly when the dropout rate is 1.0 or more; every rate below 1.0,
\* negative rates included, and an absent rate are accepted, and a rate that
\* is not above 0 builds a block without a dropout layer.
C4_DropoutValidation ==
  call.op = "init" =>
    /\ call.status = "config_error" <=>
         (call.args.dropout # None /\ call.args.dropout[1] >= 1000)
    /\ call.status = "ok" <=>
         (call.args.dropout = None \/ call.args.dropout[1] < 1000)
    /\ call.status = "config_error" => self_modules = <<>> /\ self_poolsize = None
    /\ call.status = "ok" => self_modules # <<>>
    /\ (call.status = "ok" /\ call.args.dropout # None /\ call.args.dropout[1] <= 0)
         => ~HasModule("dropout")

\* A construction rejected for the rate 1.0 exactly.
C4_Witness ==
  call.op = "init" /\ call.status = "config_error" /\ call.args.dropout = <<1000>>

\* C6: a pooling layer is built and _poolsize is kept if and only if the pool
\* size, a scalar taken twice, has both dimensions above 0 and one above 1; in
\* every block the pooling layer is there iff _poolsize is, and _poolsize is
\* the window of the pooling layer.
C6_PoolSuppression ==
  /\ Constructed =>
       /\ HasModule("pooling") <=> PoolHonoured(call.args.poolsize)
       /\ self_poolsize # None <=> PoolHonoured(call.args.poolsize)
       /\ PoolHonoured(call.args.poolsize) =>
            self_poolsize = IF Len(call.args.poolsize) = 1
                            THEN <<call.args.poolsize[1], call.args.poolsize[1]>>
                            ELSE call.args.poolsize
  /\ HasModule("pooling") <=> self_poolsize # None
  /\ HasModule("pooling") =>
       /\ self_modules[Len(self_modules)].name = "pooling"
       /\ self_poolsize = ModuleNamed("pooling").kernel_size

\* A block built with the pool size (1, 2): one dimension above 1 is enough.
C6_Witness ==
  Constructed /\ call.args.poolsize = <<1, 2>> /\ self_poolsize = <<1, 2>>
  /\ HasModule("pooling")

Odd(k) == k % 2 = 1

\* The extent the convolution must produce on one axis, by C10.
C10_Expected(h, k, d) == IF Odd(k) THEN h ELSE h - d

\* C10: with the padding floor((k - 1) / 2) * d on each axis, the convolution
\* returns the extent of its input for an odd kernel size k, and the extent of
\* its input less the dilation d for an even k.
C10_SameConvolution ==
  HasModule("conv") =>
    LET c == ModuleNamed("conv") IN
    /\ \A a \in 1..2 :
         /\ c.padding[a] = ((c.kernel_size[a] - 1) \div 2) * c.dilation[a]
         /\ \A h \in Extents :
              ConvExtent(h, c.kernel_size[a], c.padding[a], c.dilation[a])
                = C10_Expected(h, c.kernel_size[a], c.dilation[a])
    /\ (call.op = "forward" /\ \E i \in 1..Len(call.trace) : call.trace[i].name = "conv") =>
         LET o == call.trace[CHOOSE i \in 1..Len(call.trace) : call.trace[i].name = "conv"] IN
         /\ o.h = C10_Expected(call.arg.h, c.kernel_size[1], c.dilation[1])
         /\ o.w = C10_Expected(call.arg.w, c.kernel_size[2], c.dilation[2])

\* A pass through a convolution with kernel (3, 2) and dilation (2, 1): the
\* height is kept, the width shrinks by one.
C10_Witness ==
  /\ Returned
  /\ ModuleNamed("conv").kernel_size = <<3, 2>>
  /\ ModuleNamed("conv").dilation = <<2, 1>>
  /\ ~HasModule("pooling")
  /\ x.h = call.arg.h
  /\ x.w = call.arg.w - 1

PaddedCall == call.op = "forward" /\ call.arg.kind = "padded"

WellFormed(t) == t.dim = 2 /\ t.cols = 2

\* C2: through a block with a pooling stage of size (ph, pw), forward maps
\* each row (h, w) of the sizes, 0 <= h <= H and 0 <= w <= W, to the row
\* (h // ph, w // pw), every sample of the batch by itself.
C2_PooledSizes ==
  (Returned /\ PaddedCall /\ HasModule("pooling")) =>
    LET window == ModuleNamed("pooling").kernel_size IN
    /\ Len(x.rows) = Len(call.arg.rows)
    /\ \A i \in 1..Len(call.arg.rows) :
         /\ x.rows[i][1] = call.arg.rows[i][1] \div window[1]
         /\ x.rows[i][2] = call.arg.rows[i][2] \div window[2]

\* Two samples of different sizes through a pooling stage of size (2, 1).
C2_Witness ==
  /\ Returned /\ PaddedCall
  /\ HasModule("pooling") /\ ModuleNamed("pooling").kernel_size = <<2, 1>>
  /\ call.arg.rows = <<(<<2, 1>>), (<<1, 2>>)>>
  /\ x.rows = <<(<<1, 1>>), (<<0, 2>>)>>

\* Every row of the sizes of t lies inside the data of t.
SizesInside(t) ==
  \A i \in 1..Len(t.rows) : t.rows[i][1] <= t.h /\ t.rows[i][2] <= t.w

\* C3: every row of the sizes of a PaddedTensor forward returns lies inside
\* the data it returns, when that was so of its input, whatever the kernel
\* size, the dilation and the pool size of the block.
C3_SizesInsideData ==
  (Returned /\ PaddedCall /\ SizesInside(call.arg)) => SizesInside(x)

\* C5: after any moves to the CPU and to the accelerator, _poolsize is on the
\* device of the parameters and keeps its value, a forward pass on a
\* PaddedTensor of that device meets no device mismatch, and a block without
\* _poolsize still has none.
C5_PoolFollowsDevice ==
  /\ [](/\ self_poolsize # None => pool_device = param_device
        /\ self_poolsize = None => pool_device = "none"
        /\ (PaddedCall /\ call.arg.dev = param_device) => call.status # "device_error")
  /\ [][self_modules # <<>> => self_poolsize' = self_poolsize]_vars

\* A PaddedTensor on the accelerator through a pooling block moved there.
C5_Witness ==
  /\ Returned /\ PaddedCall
  /\ self_poolsize # None
  /\ param_device = "cuda" /\ pool_device = "cuda" /\ call.arg.dev = "cuda"

\* C7: forward on a PaddedTensor whose sizes are no matrix, or a matrix of
\* other than 2 columns, fails with the shape error before any layer runs and
\* returns nothing; sizes of shape (N, 2) never raise it.
C7_ShapeContract ==
  PaddedCall =>
    /\ ~WellFormed(call.arg) =>
         call.status = "shape_error" /\ call.trace = <<>> /\ x = call.arg
    /\ WellFormed(call.arg) => call.status # "shape_error"

\* A pass refused for sizes of three columns.
C7_Witness ==
  PaddedCall /\ call.arg.dim = 2 /\ call.arg.cols = 3 /\ call.status = "shape_error"

\* C8: through a block without a pooling stage, forward returns the sizes of
\* a PaddedTensor as they came, whatever the kernel size, dilation, dropout
\* and batch normalisation.
C8_SizesUnchanged ==
  (Returned /\ PaddedCall /\ ~HasModule("pooling")) => x.rows = call.arg.rows

\* Two samples through dropout, an even convolution and batchnorm, no pooling.
C8_Witness ==
  /\ Returned /\ PaddedCall /\ ~HasModule("pooling")
  /\ HasModule("dropout") /\ HasModule("batchnorm")
  /\ ModuleNamed("conv").kernel_size = <<2, 3>>
  /\ call.arg.rows = <<(<<2, 1>>), (<<1, 2>>)>>

\* The same data tensor, passed in the other way: a bare tensor wrapped with
\* the sizes of full images, the data of a PaddedTensor on its own.
Twin(t) ==
  IF t.kind = "bare"
  THEN [t EXCEPT !.kind = "padded", !.dim = 2, !.cols = 2,
                 !.rows = [i \in 1..t.n |-> <<t.h, t.w>>]]
  ELSE [t EXCEPT !.kind = "bare", !.dim = 0, !.cols = 0, !.rows = <<>>]

DataShape(t) == <<t.n, t.h, t.w>>

\* C9: forward returns a bare tensor for a bare tensor, with no sizes, and a
\* PaddedTensor for a PaddedTensor of well-formed sizes; the data goes
\* through the same layers either way, so the shape of the data returned is
\* the same for a tensor passed bare and passed inside a PaddedTensor.
C9_TypePreserving ==
  Returned =>
    /\ x.kind = call.arg.kind
    /\ call.arg.kind = "bare" => x.rows = <<>> /\ x.dim = 0
    /\ call.arg.kind = "padded" => WellFormed(x) /\ Len(x.rows) = x.n
    /\ DataShape(x) = <<call.arg.n, call.trace[Len(call.trace)].h,
                        call.trace[Len(call.trace)].w>>
    /\ LET r == Forward(self_modules, self_poolsize, pool_device, param_device,
                        Twin(call.arg))
       IN  /\ r.status = "ok"
           /\ r.trace = call.trace
           /\ r.y.kind = Twin(call.arg).kind
           /\ DataShape(r.y) = DataShape(x)

\* A bare tensor through a pooling block: a smaller bare tensor comes back.
C9_Witness ==
  /\ Returned /\ call.arg.kind = "bare" /\ x.kind = "bare"
  /\ HasModule("pooling")
  /\ call.arg.h = 2 /\ x.h = 1

====
